---- MODULE Spec2Model ----
(***************************************************************************)
(* ML-DSA key codecs (providers/implementations/encode_decode/             *)
(* ml_dsa_codecs.c): the PKCS#8 format tables, the format preference list  *)
(* (vp8_order), the private key payload decoder (ossl_ml_dsa_d2i_PKCS8)    *)
(* and encoder (ossl_ml_dsa_i2d_prvkey), and the public key codecs.        *)
(*                                                                         *)
(* Byte strings are sequences of 0..255.  A uint32_t is held as its four   *)
(* big-endian bytes.  A C string is a sequence of one-character strings; a *)
(* char pointer is NULL or Str(s), a byte or array pointer is NULL or the  *)
(* (non-empty) sequence it points at.                                      *)
(***************************************************************************)
EXTENDS Integers, Sequences, FiniteSets, TLC

VARIABLES
    formats,    \* vp8_order: the configured format list handed to it
    vp8,        \* vp8_order: the array it returned (or NULL)
    key,        \* the ML_DSA_KEY handed to the encoders
    outformats, \* provider parameter "ml-dsa.output_formats"
    enc,        \* result of the last ossl_ml_dsa_i2d_prvkey call
    p8,         \* the PKCS#8 info handed to ossl_ml_dsa_d2i_PKCS8
    informats,  \* provider parameter "ml-dsa.input_formats"
    dec,        \* result of the last ossl_ml_dsa_d2i_PKCS8 call
    spki,       \* result of the last ossl_ml_dsa_i2d_pubkey call
    pubdec      \* result of the last ossl_ml_dsa_d2i_PUBKEY call

vars == <<formats, vp8, key, outformats, enc, p8, informats, dec, spki, pubdec>>

NULL == <<>>
Str(s) == <<s>>
Ref(x) == <<x>>
NOERR == "no error"

(***************************************************************************)
(* Bounds of the model.                                                    *)
(***************************************************************************)
\* Number of tokens in an enumerated configuration string.
MaxTokens == 2
\* Number of distinct byte patterns key material is drawn from.
NumFills == 2

(***************************************************************************)
(* Program constants.                                                      *)
(***************************************************************************)
NUM_PKCS8_FORMATS == 6
ML_DSA_SEED_BYTES == 32
ML_DSA_SPKI_OVERHEAD == 22

EVP_TYPES == {"ML-DSA-44", "ML-DSA-65", "ML-DSA-87"}

\* ossl_ml_dsa_params_get: the sizes of each parameter set.
ml_dsa_params ==
    [t \in EVP_TYPES |->
        CASE t = "ML-DSA-44" -> [alg |-> t, pk_len |-> \h0520, sk_len |-> \h0a00]
          [] t = "ML-DSA-65" -> [alg |-> t, pk_len |-> \h07a0, sk_len |-> \h0fc0]
          [] t = "ML-DSA-87" -> [alg |-> t, pk_len |-> \h0a20, sk_len |-> \h1320]]

\* One ML_DSA_PKCS8_FMT table entry, fields in declaration order.
P8Fmt(name, bytes, shift, magic, smagic, soff, slen, pmagic, poff, plen, puboff, publen) ==
    [p8_name |-> name, p8_bytes |-> bytes, p8_shift |-> shift, p8_magic |-> magic,
     seed_magic |-> smagic, seed_offset |-> soff, seed_length |-> slen,
     priv_magic |-> pmagic, priv_offset |-> poff, priv_length |-> plen,
     pub_offset |-> puboff, pub_length |-> publen]

n_seed_priv  == <<"s","e","e","d","-","p","r","i","v">>
n_priv_only  == <<"p","r","i","v","-","o","n","l","y">>
n_oqskeypair == <<"o","q","s","k","e","y","p","a","i","r">>
n_seed_only  == <<"s","e","e","d","-","o","n","l","y">>
n_bare_priv  == <<"b","a","r","e","-","p","r","i","v">>
n_bare_seed  == <<"b","a","r","e","-","s","e","e","d">>

ml_dsa_44_p8fmt == <<
    P8Fmt(n_seed_priv,  \h0a2a, 0, \h30820a26, \h0420, 6, \h20, \h04820a00, \h2a, \h0a00, 0,      0),
    P8Fmt(n_priv_only,  \h0a04, 0, \h04820a00, 0,      0, 0,    0,          \h04, \h0a00, 0,      0),
    P8Fmt(n_oqskeypair, \h0f24, 0, \h04820f20, 0,      0, 0,    0,          \h04, \h0a00, \h0a04, \h0520),
    P8Fmt(n_seed_only,  \h0022, 2, \h8020,     0,      2, \h20, 0,          0,    0,      0,      0),
    P8Fmt(n_bare_priv,  \h0a00, 4, 0,          0,      0, 0,    0,          0,    \h0a00, 0,      0),
    P8Fmt(n_bare_seed,  \h0020, 4, 0,          0,      0, \h20, 0,          0,    0,      0,      0) >>

ml_dsa_65_p8fmt == <<
    P8Fmt(n_seed_priv,  \h0fea, 0, \h30820fe6, \h0420, 6, \h20, \h04820fc0, \h2a, \h0fc0, 0,      0),
    P8Fmt(n_priv_only,  \h0fc4, 0, \h04820fc0, 0,      0, 0,    0,          \h04, \h0fc0, 0,      0),
    P8Fmt(n_oqskeypair, \h1764, 0, \h04821760, 0,      0, 0,    0,          \h04, \h0fc0, \h0fc4, \h07a0),
    P8Fmt(n_seed_only,  \h0022, 2, \h8020,     0,      2, \h20, 0,          0,    0,      0,      0),
    P8Fmt(n_bare_priv,  \h0fc0, 4, 0,          0,      0, 0,    0,          0,    \h0fc0, 0,      0),
    P8Fmt(n_bare_seed,  \h0020, 4, 0,          0,      0, \h20, 0,          0,    0,      0,      0) >>

ml_dsa_87_p8fmt == <<
    P8Fmt(n_seed_priv,  \h134a, 0, \h30821346, \h0420, 6, \h20, \h04821320, \h2a, \h1320, 0,      0),
    P8Fmt(n_priv_only,  \h1324, 0, \h04821320, 0,      0, 0,    0,          \h04, \h1320, 0,      0),
    P8Fmt(n_oqskeypair, \h1d44, 0, \h04821d40, 0,      0, 0,    0,          \h04, \h1320, \h1324, \h0a20),
    P8Fmt(n_seed_only,  \h0022, 2, \h8020,     0,      2, \h20, 0,          0,    0,      0,      0),
    P8Fmt(n_bare_priv,  \h1320, 4, 0,          0,      0, 0,    0,          0,    \h1320, 0,      0),
    P8Fmt(n_bare_seed,  \h0020, 4, 0,          0,      0, \h20, 0,          0,    0,      0,      0) >>

ml_dsa_44_spkifmt ==
    << \h30, \h82, \h05, \h32, \h30, \h0b, \h06, \h09, \h60, \h86, \h48,
       \h01, \h65, \h03, \h04, \h03, \h11, \h03, \h82, \h05, \h21, \h00 >>
ml_dsa_65_spkifmt ==
    << \h30, \h82, \h07, \hb2, \h30, \h0b, \h06, \h09, \h60, \h86, \h48,
       \h01, \h65, \h03, \h04, \h03, \h12, \h03, \h82, \h07, \ha1, \h00 >>
ml_dsa_87_spkifmt ==
    << \h30, \h82, \h0a, \h32, \h30, \h0b, \h06, \h09, \h60, \h86, \h48,
       \h01, \h65, \h03, \h04, \h03, \h13, \h03, \h82, \h0a, \h21, \h00 >>

\* The codec slot of a variant; NULL for any other key type.
ml_dsa_get_codec(evp_type) ==
    CASE evp_type = "ML-DSA-44" -> [spkifmt |-> ml_dsa_44_spkifmt, p8fmt |-> ml_dsa_44_p8fmt]
      [] evp_type = "ML-DSA-65" -> [spkifmt |-> ml_dsa_65_spkifmt, p8fmt |-> ml_dsa_65_p8fmt]
      [] evp_type = "ML-DSA-87" -> [spkifmt |-> ml_dsa_87_spkifmt, p8fmt |-> ml_dsa_87_p8fmt]
      [] OTHER -> NULL

(***************************************************************************)
(* Byte order helpers (openssl/byteorder.h).                               *)
(***************************************************************************)
\* The four big-endian bytes of a table constant.
U32(m) == << (m \div 16777216) % 256, (m \div 65536) % 256, (m \div 256) % 256, m % 256 >>
\* The two big-endian bytes of (uint16_t)m.
U16(m) == << (m \div 256) % 256, m % 256 >>
\* OPENSSL_load_u32_be / OPENSSL_load_u16_be at 0-based offset pos of buf.
load_u32_be(buf, pos) == SubSeq(buf, pos + 1, pos + 4)
load_u16_be(buf, pos) == SubSeq(buf, pos + 1, pos + 2)
\* magic >> (shift * 8) on a uint32_t held as four bytes.
ShiftRight(magic, shift) == [i \in 1..4 |-> IF i <= shift THEN 0 ELSE magic[i - shift]]

(***************************************************************************)
(* C string helpers.                                                       *)
(***************************************************************************)
UpperCase == <<"A","B","C","D","E","F","G","H","I","J","K","L","M",
               "N","O","P","Q","R","S","T","U","V","W","X","Y","Z">>
LowerCase == <<"a","b","c","d","e","f","g","h","i","j","k","l","m",
               "n","o","p","q","r","s","t","u","v","w","x","y","z">>
tolower(c) ==
    IF \E i \in 1..26 : UpperCase[i] = c
    THEN LowerCase[CHOOSE i \in 1..26 : UpperCase[i] = c]
    ELSE c

NUL == "\\0"
\* The character at 1-based index i of a C string, NUL at and past its end.
CharAt(s, i) == IF i <= Len(s) THEN s[i] ELSE NUL

\* const char *sep = "\t ,";
sep == {"\t", " ", ","}

\* strspn(s + at - 1, sep): length of the run of separators starting at index at.
RECURSIVE strspn(_, _)
strspn(s, at) == IF CharAt(s, at) \in sep THEN 1 + strspn(s, at + 1) ELSE 0

\* strcspn(s + at - 1, sep): length of the run of non-separators starting at at.
RECURSIVE strcspn(_, _)
strcspn(s, at) ==
    IF CharAt(s, at) = NUL \/ CharAt(s, at) \in sep THEN 0 ELSE 1 + strcspn(s, at + 1)

\* OPENSSL_strncasecmp(s1, s2 + at - 1, n) = 0: at most n characters compared,
\* case-insensitively, stopping at a NUL.
RECURSIVE strncasecmp_eq(_, _, _, _, _)
strncasecmp_eq(s1, s2, at, n, i) ==
    IF i > n THEN TRUE
    ELSE LET c1 == CharAt(s1, i)
             c2 == CharAt(s2, at + i - 1)
         IN IF tolower(c1) # tolower(c2) THEN FALSE
            ELSE IF c1 = NUL THEN TRUE
            ELSE strncasecmp_eq(s1, s2, at, n, i + 1)

(***************************************************************************)
(* vp8_order: the ordered list of enabled PKCS#8 formats.                  *)
(***************************************************************************)
\* Zeros sort last, otherwise the sort is in increasing order.
pref_cmp(a, b) ==
    IF a.pref > 0 /\ b.pref > 0 THEN a.pref - b.pref ELSE b.pref - a.pref

\* The arrangements of the slots in rest, appended to done, in which each slot
\* is accepted by pref_cmp after the one before it.
RECURSIVE SortedFrom(_, _, _)
SortedFrom(ret, done, rest) ==
    IF rest = {} THEN {done}
    ELSE UNION { SortedFrom(ret, Append(done, x), rest \ {x}) :
                 x \in { y \in rest :
                           done = <<>> \/ pref_cmp(ret[done[Len(done)]], ret[y]) <= 0 } }

\* qsort(ret, NUM_PKCS8_FORMATS, ..., pref_cmp): every arrangement of the first
\* six slots that pref_cmp accepts as sorted (qsort is not stable: slots that
\* compare equal may come out in any order).
qsort(ret) ==
    { [i \in 1..(NUM_PKCS8_FORMATS + 1) |->
          IF i <= NUM_PKCS8_FORMATS THEN ret[p[i]] ELSE ret[i]] :
      p \in SortedFrom(ret, <<>>, 1..NUM_PKCS8_FORMATS) }

\* The table entries assigned to the slots in reverse.
InitialSlots_reversed ==
    [i \in 1..(NUM_PKCS8_FORMATS + 1) |->
        IF i <= NUM_PKCS8_FORMATS THEN [fmt |-> NUM_PKCS8_FORMATS + 1 - i, pref |-> 0]
        ELSE [fmt |-> 0, pref |-> 0]]

\* A slot's fmt points at entry fmt of the table (1-based); 0 is NULL.
InitialSlots ==
    [i \in 1..(NUM_PKCS8_FORMATS + 1) |->
        IF i <= NUM_PKCS8_FORMATS THEN [fmt |-> i, pref |-> 0] ELSE [fmt |-> 0, pref |-> 0]]

\* The slot a token selects: the first not yet selected whose name compares
\* equal over the token's length; 0 when there is none.
MatchSlot(p8fmt, ret, s, at, n) ==
    LET hits == { i \in 1..NUM_PKCS8_FORMATS :
                    ~(ret[i].pref > 0 \/ ~strncasecmp_eq(p8fmt[ret[i].fmt].p8_name, s, at, n, 1)) }
    IN IF hits = {} THEN 0 ELSE CHOOSE i \in hits : \A j \in hits : i <= j

\* The do { ... } while (count < NUM_PKCS8_FORMATS) loop, from index fmt on.
RECURSIVE ScanFormats(_, _, _, _, _)
ScanFormats(p8fmt, ret, count, s, fmt) ==
    LET start == fmt + strspn(s, fmt)
    IN IF CharAt(s, start) = NUL THEN [ret |-> ret, count |-> count]
       ELSE LET end == start + strcspn(s, start)
                i   == MatchSlot(p8fmt, ret, s, start, end - start)
                ret2 == IF i = 0 THEN ret
                        ELSE [ret EXCEPT ![i] = [@ EXCEPT !.pref = count + 1]]
                count2 == IF i = 0 THEN count ELSE count + 1
            IN IF count2 < NUM_PKCS8_FORMATS
               THEN ScanFormats(p8fmt, ret2, count2, s, end)
               ELSE [ret |-> ret2, count |-> count2]

\* The outcomes of vp8_order(alg, p8fmt, direction, formats): each is the
\* returned array (NULL on failure) and the error raised, if any.
vp8_order(p8fmt, fmts) ==
    IF fmts = NULL
    THEN { [ret |-> InitialSlots, err |-> NOERR] }
    ELSE LET sc == ScanFormats(p8fmt, InitialSlots, 0, fmts[1], 1)
         IN IF sc.count = 0
            THEN { [ret |-> NULL, err |-> "PROV_R_ML_DSA_NO_FORMAT"] }
            ELSE { [ret |-> [r EXCEPT ![sc.count + 1] = [@ EXCEPT !.fmt = 0]],
                    err |-> NOERR] : r \in qsort(sc.ret) }

\* The list a caller walks, for (slot = vp8_alloc; (p8fmt = slot->fmt) != NULL;
\* ++slot): the fmt pointers up to the first NULL one.
RECURSIVE Walk(_, _)
Walk(ret, i) == IF ret[i].fmt = 0 THEN <<>> ELSE <<ret[i].fmt>> \o Walk(ret, i + 1)
SlotList(ret) == Walk(ret, 1)

(***************************************************************************)
(* Configuration strings the format lists are drawn from.                  *)
(***************************************************************************)
n_unknown   == <<"u","n","k","n","o","w","n">>
n_seed      == <<"s","e","e","d">>
n_Bare_Seed == <<"B","a","r","e","-","S","E","E","D">>

Words == << n_seed_priv, n_priv_only, n_oqskeypair, n_seed_only, n_bare_priv,
            n_bare_seed, n_unknown, n_seed, n_Bare_Seed >>

\* How the words of a list are separated.
Styles == { [lead |-> <<>>,    mid |-> <<",">>,       trail |-> <<>>],
            [lead |-> <<" ">>, mid |-> <<",", "\t">>, trail |-> <<",">>] }

RECURSIVE Join(_, _, _)
Join(ws, st, i) ==
    IF i > Len(ws) THEN st.trail
    ELSE (IF i = 1 THEN st.lead ELSE st.mid) \o Words[ws[i]] \o Join(ws, st, i + 1)

Render(ws, st) == IF ws = <<>> THEN st.lead \o st.trail ELSE Join(ws, st, 1)

WordLists == UNION { [1..n -> 1..Len(Words)] : n \in 0..MaxTokens }

\* The list of the documented example: "bare-seed,unknown,priv-only".
ExampleList == <<6, 7, 2>>

ConfigStrings ==
    {NULL} \cup { Str(Render(ws, st)) : ws \in WordLists \cup {ExampleList}, st \in Styles }

\* The format lists the provider is configured with.
CodecLists ==
    { <<i>> : i \in 1..Len(Words) }
    \cup {<<>>, ExampleList, <<4, 1>>, <<1, 4>>, <<6, 5, 4, 3, 2, 1>>}
FormatLists ==
    {NULL} \cup { Str(Render(ws, [lead |-> <<>>, mid |-> <<",">>, trail |-> <<>>])) :
                    ws \in CodecLists }


\* What the callers of vp8_order see of its outcomes, for each variant and
\* each configured list: the list walked (NULL when it failed) and the error
\* raised.  The slots behind the terminator are never read.
WalkTable ==
    [t \in EVP_TYPES |->
        [f \in FormatLists |->
            { [list |-> IF o.ret = NULL THEN NULL ELSE Ref(SlotList(o.ret)),
               err |-> o.err] : o \in vp8_order(ml_dsa_get_codec(t).p8fmt, f) }]]

\* vp8_order(v->alg, codec->p8fmt, direction, formats) as called by the codecs
\* of variant t.
vp8_walks(t, fmts) == WalkTable[t][fmts]

(***************************************************************************)
(* The key object (ml_dsa_key.c), as far as the codecs read it.  A key     *)
(* holds its material as a pattern number, 0 when the field is absent.     *)
(***************************************************************************)
SeedBytes(f) == [i \in 1..ML_DSA_SEED_BYTES |-> (16 * f + i) % 256]
PrivBytes(t, f) == [i \in 1..ml_dsa_params[t].sk_len |-> (16 * f + 7 + 3 * i) % 256]
PubBytes(t, f) == [i \in 1..ml_dsa_params[t].pk_len |-> (16 * f + 11 + 5 * i) % 256]

ossl_ml_dsa_key_get_seed(k) == IF k.seed = 0 THEN NULL ELSE SeedBytes(k.seed)
ossl_ml_dsa_key_get_priv(k) == IF k.priv = 0 THEN NULL ELSE PrivBytes(k.evp_type, k.priv)
ossl_ml_dsa_key_get_pub(k) == IF k.pub = 0 THEN NULL ELSE PubBytes(k.evp_type, k.pub)

\* The keys handed to the encoders: a key with private bytes holds the public
\* bytes derived from them, and a seed comes with its private bytes.
Keys ==
    { k \in [st : {"key"}, evp_type : EVP_TYPES,
             seed : 0..NumFills, priv : 0..NumFills, pub : 0..NumFills] :
        /\ k.priv # 0 => k.pub = k.priv
        /\ k.priv = 0 => k.seed = 0 }

(***************************************************************************)
(* ossl_ml_dsa_i2d_prvkey: allocate and encode the PKCS#8 private key      *)
(* payload.                                                                *)
(***************************************************************************)
\* The lengths a table entry declares are those of the parameter set.
LengthsFit(f, params) ==
    ~ \/ (f.seed_length > 0 /\ f.seed_length # ML_DSA_SEED_BYTES)
      \/ (f.priv_length > 0 /\ f.priv_length # params.sk_len)
      \/ (f.pub_length > 0 /\ f.pub_length # params.pk_len)

\* The loop stopping at the first entry, seedful or not.
SelectOutput_first(p8fmt, list, i, seed) ==
    IF i > Len(list) THEN 0 ELSE list[i]

\* for (slot = vp8_alloc; (p8fmt = slot->fmt) != NULL; ++slot)
\*     if (seed != NULL || p8fmt->seed_length == 0) break;
\* The entry the loop stops at, 0 when it reaches the terminator.
RECURSIVE SelectOutput(_, _, _, _)
SelectOutput(p8fmt, list, i, seed) ==
    IF i > Len(list) THEN 0
    ELSE IF seed # NULL \/ p8fmt[list[i]].seed_length = 0 THEN list[i]
    ELSE SelectOutput(p8fmt, list, i + 1, seed)

\* The write cursor: the bytes stored so far (pos - buf is their number) and
\* whether an internal error was raised.
Cursor(buf, fault) == [buf |-> buf, fault |-> fault]

\* switch (p8fmt->p8_shift): the top-level tag and length.
PutHeader(f) ==
    CASE f.p8_shift = 0 -> Cursor(U32(f.p8_magic), FALSE)
      [] f.p8_shift = 2 -> Cursor(U16(f.p8_magic), FALSE)
      [] f.p8_shift = 4 -> Cursor(<<>>, FALSE)
      [] OTHER -> Cursor(<<>>, TRUE)

\* if (p8fmt->seed_length != 0): the seed, after its own tag and length when
\* those were not part of the magic.
PutSeed(c, f, seed) ==
    IF c.fault \/ f.seed_length = 0 THEN c
    ELSE LET b == IF Len(c.buf) + 2 = f.seed_offset
                  THEN c.buf \o U16(f.seed_magic) ELSE c.buf
         IN IF Len(b) # f.seed_offset THEN Cursor(b, TRUE)
            ELSE Cursor(b \o seed, FALSE)

\* The private key bytes without their own tag and length.
PutPriv_nohdr(c, f, sk) ==
    IF c.fault \/ f.priv_length = 0 THEN c
    ELSE IF Len(c.buf) # f.priv_offset THEN Cursor(c.buf, TRUE)
    ELSE Cursor(c.buf \o sk, FALSE)

\* if (p8fmt->priv_length != 0): the private key bytes.
PutPriv(c, f, sk) ==
    IF c.fault \/ f.priv_length = 0 THEN c
    ELSE LET b == IF Len(c.buf) + 4 = f.priv_offset
                  THEN c.buf \o U32(f.priv_magic) ELSE c.buf
         IN IF Len(b) # f.priv_offset THEN Cursor(b, TRUE)
            ELSE Cursor(b \o sk, FALSE)

\* if (p8fmt->pub_length != 0): the tacked-on public key of the OQS form.
PutPub(c, f, pk) ==
    IF c.fault \/ f.pub_length = 0 THEN c
    ELSE IF Len(c.buf) # f.pub_offset THEN Cursor(c.buf, TRUE)
    ELSE Cursor(c.buf \o pk, FALSE)

\* What a call returns and leaves behind: the return value, *out, the error
\* raised, the table entry used (0 for none), and how many times the format
\* list and the output buffer were allocated and freed.
EncResult(ret, out, err, fmt, va, vf, ba, bf) ==
    [st |-> "done", ret |-> ret, out |-> out, err |-> err, fmt |-> fmt,
     vp8_allocs |-> va, vp8_frees |-> vf, buf_allocs |-> ba, buf_frees |-> bf]

\* The outcomes of ossl_ml_dsa_i2d_prvkey(key, out, provctx) with the output
\* formats parameter fmts; want_out is out != NULL, fail names the allocation
\* that fails ("none", "vp8" or "buf").
ossl_ml_dsa_i2d_prvkey(k, fmts, want_out, fail) ==
    LET params == ml_dsa_params[k.evp_type]
        codec  == ml_dsa_get_codec(k.evp_type)
        seed   == ossl_ml_dsa_key_get_seed(k)
        sk     == ossl_ml_dsa_key_get_priv(k)
    IN IF codec = NULL
       THEN { EncResult(0, NULL, NOERR, 0, 0, 0, 0, 0) }
       ELSE IF sk = NULL
       THEN { EncResult(0, NULL, "PROV_R_NOT_A_PRIVATE_KEY", 0, 0, 0, 0, 0) }
       ELSE IF fail = "vp8"
       THEN { EncResult(0, NULL, NOERR, 0, 0, 0, 0, 0) }
       ELSE
       { LET sel == IF o.list = NULL THEN 0
                    ELSE SelectOutput(codec.p8fmt, o.list[1], 1, seed)
         IN IF o.list = NULL
            THEN EncResult(0, NULL, o.err, 0, 1, 1, 0, 0)
            ELSE IF sel = 0 \/ ~LengthsFit(codec.p8fmt[sel], params)
            THEN EncResult(0, NULL, "PROV_R_ML_DSA_NO_FORMAT", 0, 1, 1, 0, 0)
            ELSE LET f   == codec.p8fmt[sel]
                     len == f.p8_bytes
                 IN IF ~want_out
                    THEN EncResult(len, NULL, NOERR, sel, 1, 1, 0, 0)
                    ELSE IF fail = "buf"
                    THEN EncResult(0, NULL, NOERR, sel, 1, 1, 0, 0)
                    ELSE LET c == PutPub(PutPriv(PutSeed(PutHeader(f), f, seed), f, sk),
                                         f, ossl_ml_dsa_key_get_pub(k))
                         IN IF c.fault
                            THEN EncResult(0, NULL, "ERR_R_INTERNAL_ERROR", sel, 1, 1, 1, 1)
                            ELSE IF Len(c.buf) = len
                            THEN EncResult(len, c.buf, NOERR, sel, 1, 1, 1, 0)
                            ELSE EncResult(0, NULL, NOERR, sel, 1, 1, 1, 1)
         : o \in vp8_walks(k.evp_type, fmts) }

(***************************************************************************)
(* ossl_ml_dsa_d2i_PKCS8: decode the PKCS#8 private key payload.           *)
(***************************************************************************)
\* The search without the length check.
RECURSIVE SelectInput_nolen(_, _, _, _, _)
SelectInput_nolen(p8fmt, list, i, len, magic) ==
    IF i > Len(list) THEN 0
    ELSE LET f == p8fmt[list[i]]
         IN IF f.p8_shift = 4 \/ ShiftRight(magic, f.p8_shift) = U32(f.p8_magic)
            THEN list[i]
            ELSE SelectInput_nolen(p8fmt, list, i + 1, len, magic)

\* The search without the magic check.
RECURSIVE SelectInput_nomagic(_, _, _, _, _)
SelectInput_nomagic(p8fmt, list, i, len, magic) ==
    IF i > Len(list) THEN 0
    ELSE IF len # p8fmt[list[i]].p8_bytes
         THEN SelectInput_nomagic(p8fmt, list, i + 1, len, magic)
         ELSE list[i]

\* for (slot = vp8_alloc; (p8fmt = slot->fmt) != NULL; ++slot): the entry
\* with the payload's length whose magic matches; 0 at the terminator.
RECURSIVE SelectInput(_, _, _, _, _)
SelectInput(p8fmt, list, i, len, magic) ==
    IF i > Len(list) THEN 0
    ELSE LET f == p8fmt[list[i]]
         IN IF len # f.p8_bytes THEN SelectInput(p8fmt, list, i + 1, len, magic)
            ELSE IF f.p8_shift = 4 \/ ShiftRight(magic, f.p8_shift) = U32(f.p8_magic)
            THEN list[i]
            ELSE SelectInput(p8fmt, list, i + 1, len, magic)

\* The read position after the seed field, -1 when the encoding is bad.
SkipSeed(buf, pos, f) ==
    IF pos < 0 \/ f.seed_length = 0 THEN pos
    ELSE IF pos + 2 = f.seed_offset
         THEN IF load_u16_be(buf, pos) # U16(f.seed_magic) THEN -1
              ELSE pos + 2 + ML_DSA_SEED_BYTES
    ELSE IF pos # f.seed_offset THEN -1
    ELSE pos + ML_DSA_SEED_BYTES

\* The read position after the private key field, -1 when the encoding is bad.
SkipPriv(buf, pos, f, v) ==
    IF pos < 0 \/ f.priv_length = 0 THEN pos
    ELSE IF pos + 4 = f.priv_offset
         THEN IF load_u32_be(buf, pos) # U32(f.priv_magic) THEN -1
              ELSE pos + 4 + v.sk_len
    ELSE IF pos # f.priv_offset THEN -1
    ELSE pos + v.sk_len

\* The read position after the public key field, -1 when the encoding is bad.
SkipPub(pos, f, v) ==
    IF pos < 0 \/ f.pub_length = 0 THEN pos
    ELSE IF pos # f.pub_offset THEN -1
    ELSE pos + v.pk_len

\* The seed taken at the private key's offset.
ossl_ml_dsa_set_prekey_seed_at_priv(buf, f, v) ==
  Ref(
    [seed |-> IF f.seed_length > 0
              THEN SubSeq(buf, f.priv_offset + 1, f.priv_offset + ML_DSA_SEED_BYTES)
              ELSE NULL,
     priv |-> IF f.priv_length > 0
              THEN SubSeq(buf, f.priv_offset + 1, f.priv_offset + v.sk_len)
              ELSE NULL])

\* The private key taken at the seed's offset.
ossl_ml_dsa_set_prekey_priv_at_seed(buf, f, v) ==
  Ref(
    [seed |-> IF f.seed_length > 0
              THEN SubSeq(buf, f.seed_offset + 1, f.seed_offset + ML_DSA_SEED_BYTES)
              ELSE NULL,
     priv |-> IF f.priv_length > 0
              THEN SubSeq(buf, f.seed_offset + 1, f.seed_offset + v.sk_len)
              ELSE NULL])

\* ossl_ml_dsa_set_prekey(key, prefer, retain, seed, ML_DSA_SEED_BYTES, priv,
\* v->sk_len) with seed = buf + p8fmt->seed_offset, priv = buf +
\* p8fmt->priv_offset (NULL for an absent field): the key returned keeps
\* copies of the seed and of the private key bytes.
ossl_ml_dsa_set_prekey(buf, f, v) ==
  Ref(
    [seed |-> IF f.seed_length > 0
              THEN SubSeq(buf, f.seed_offset + 1, f.seed_offset + ML_DSA_SEED_BYTES)
              ELSE NULL,
     priv |-> IF f.priv_length > 0
              THEN SubSeq(buf, f.priv_offset + 1, f.priv_offset + v.sk_len)
              ELSE NULL])

\* What a call returns and leaves behind: the key (NULL or its decoded
\* material), the error raised, the table entry accepted (0 for none) and
\* how many times the format list was allocated and freed.
DecResult(ret, err, fmt, va, vf) ==
    [st |-> "done", ret |-> ret, err |-> err, fmt |-> fmt,
     vp8_allocs |-> va, vp8_frees |-> vf]

\* The decoder returning at once, without reaching its end label, when the
\* payload is shorter than a magic.
ossl_ml_dsa_d2i_PKCS8_return_early(nid, ptype, buf, evp_type, fmts, fail) ==
    LET v     == ml_dsa_params[evp_type]
        codec == ml_dsa_get_codec(evp_type)
        len   == Len(buf)
    IN IF codec = NULL THEN { DecResult(NULL, NOERR, 0, 0, 0) }
       ELSE IF nid # evp_type THEN { DecResult(NULL, NOERR, 0, 0, 0) }
       ELSE IF fail = "vp8" THEN { DecResult(NULL, NOERR, 0, 0, 0) }
       ELSE
       { IF o.list = NULL THEN DecResult(NULL, o.err, 0, 1, 1)
         ELSE IF ptype # "V_ASN1_UNDEF"
         THEN DecResult(NULL, "PROV_R_UNEXPECTED_KEY_PARAMETERS", 0, 1, 1)
         ELSE IF len < 4 THEN DecResult(NULL, NOERR, 0, 1, 0)
         ELSE LET magic == load_u32_be(buf, 0)
                  sel   == SelectInput(codec.p8fmt, o.list[1], 1, len, magic)
              IN IF sel = 0 \/ ~LengthsFit(codec.p8fmt[sel], v)
                 THEN DecResult(NULL, "PROV_R_ML_DSA_NO_FORMAT", 0, 1, 1)
                 ELSE LET f   == codec.p8fmt[sel]
                          pos == SkipPub(SkipPriv(buf, SkipSeed(buf, 4 - f.p8_shift, f), f, v),
                                         f, v)
                      IN IF pos # len THEN DecResult(NULL, NOERR, sel, 1, 1)
                         ELSE IF fail = "key" THEN DecResult(NULL, NOERR, sel, 1, 1)
                         ELSE DecResult(ossl_ml_dsa_set_prekey(buf, f, v), NOERR, sel, 1, 1)
         : o \in vp8_walks(evp_type, fmts) }

\* The outcomes of ossl_ml_dsa_d2i_PKCS8 for the variant evp_type on a PKCS#8
\* info with algorithm nid, parameter type ptype and key octets buf, with the
\* input formats parameter fmts; fail names the allocation that fails
\* ("none", "vp8" or "key").
ossl_ml_dsa_d2i_PKCS8(nid, ptype, buf, evp_type, fmts, fail) ==
    LET v     == ml_dsa_params[evp_type]
        codec == ml_dsa_get_codec(evp_type)
        len   == Len(buf)
    IN IF codec = NULL THEN { DecResult(NULL, NOERR, 0, 0, 0) }
       ELSE IF nid # evp_type THEN { DecResult(NULL, NOERR, 0, 0, 0) }
       ELSE IF fail = "vp8" THEN { DecResult(NULL, NOERR, 0, 0, 0) }
       ELSE
       { IF o.list = NULL THEN DecResult(NULL, o.err, 0, 1, 1)
         ELSE IF ptype # "V_ASN1_UNDEF"
         THEN DecResult(NULL, "PROV_R_UNEXPECTED_KEY_PARAMETERS", 0, 1, 1)
         ELSE IF len < 4 THEN DecResult(NULL, NOERR, 0, 1, 1)
         ELSE LET magic == load_u32_be(buf, 0)
                  sel   == SelectInput(codec.p8fmt, o.list[1], 1, len, magic)
              IN IF sel = 0 \/ ~LengthsFit(codec.p8fmt[sel], v)
                 THEN DecResult(NULL, "PROV_R_ML_DSA_NO_FORMAT", 0, 1, 1)
                 ELSE LET f   == codec.p8fmt[sel]
                          pos == SkipPub(SkipPriv(buf, SkipSeed(buf, 4 - f.p8_shift, f), f, v),
                                         f, v)
                      IN IF pos # len THEN DecResult(NULL, NOERR, sel, 1, 1)
                         ELSE IF fail = "key" THEN DecResult(NULL, NOERR, sel, 1, 1)
                         ELSE DecResult(ossl_ml_dsa_set_prekey(buf, f, v), NOERR, sel, 1, 1)
         : o \in vp8_walks(evp_type, fmts) }

(***************************************************************************)
(* The public key codecs.                                                  *)
(***************************************************************************)
PubResult(ret, out, err) == [st |-> "done", ret |-> ret, out |-> out, err |-> err]

\* The encoder counting the SPKI prefix in the length it returns.
ossl_ml_dsa_i2d_pubkey_spkilen(k, want_out, fail) ==
    LET params == ml_dsa_params[k.evp_type]
        pk     == ossl_ml_dsa_key_get_pub(k)
    IN IF pk = NULL THEN PubResult(0, NULL, "PROV_R_NOT_A_PUBLIC_KEY")
       ELSE IF want_out /\ fail = "dup" THEN PubResult(0, NULL, NOERR)
       ELSE PubResult(ML_DSA_SPKI_OVERHEAD + params.pk_len,
                      IF want_out THEN SubSeq(pk, 1, params.pk_len) ELSE NULL, NOERR)

\* The outcomes of ossl_ml_dsa_i2d_pubkey(key, out); want_out is out != NULL,
\* fail names the allocation that fails ("none" or "dup").
ossl_ml_dsa_i2d_pubkey(k, want_out, fail) ==
    LET params == ml_dsa_params[k.evp_type]
        pk     == ossl_ml_dsa_key_get_pub(k)
    IN IF pk = NULL THEN PubResult(0, NULL, "PROV_R_NOT_A_PUBLIC_KEY")
       ELSE IF want_out /\ fail = "dup" THEN PubResult(0, NULL, NOERR)
       ELSE PubResult(params.pk_len,
                      IF want_out THEN SubSeq(pk, 1, params.pk_len) ELSE NULL, NOERR)

\* The outcomes of ossl_ml_dsa_d2i_PUBKEY(pk, pk_len, evp_type, ...): the key
\* returned (NULL, or the key holding the public bytes) and the error raised;
\* fail is "none", "key" (ossl_ml_dsa_key_new fails) or "decode"
\* (ossl_ml_dsa_pk_decode fails).
ossl_ml_dsa_d2i_PUBKEY(pk, evp_type, fail) ==
    LET params == ml_dsa_params[evp_type]
        codec  == ml_dsa_get_codec(evp_type)
    IN IF codec = NULL THEN [ret |-> NULL, err |-> NOERR]
       ELSE IF \/ Len(pk) # ML_DSA_SPKI_OVERHEAD + params.pk_len
               \/ SubSeq(pk, 1, ML_DSA_SPKI_OVERHEAD) # codec.spkifmt
       THEN [ret |-> NULL, err |-> NOERR]
       ELSE IF fail = "key" THEN [ret |-> NULL, err |-> NOERR]
       ELSE IF fail = "decode" THEN [ret |-> NULL, err |-> "PROV_R_BAD_ENCODING"]
       ELSE [ret |-> Ref([pub |-> SubSeq(pk, ML_DSA_SPKI_OVERHEAD + 1, Len(pk))]),
             err |-> NOERR]

(***************************************************************************)
(* State machine of the preference list.                                   *)
(***************************************************************************)
Idle == [st |-> "idle"]

\* The provider configuration supplies a format list (or none).
InitOrder ==
    /\ formats \in ConfigStrings
    /\ vp8 = Idle
    /\ key = Idle
    /\ outformats = NULL
    /\ enc = Idle
    /\ p8 = Idle
    /\ informats = NULL
    /\ dec = Idle
    /\ spki = Idle
    /\ pubdec = Idle

\* A call of vp8_order on the configured list.
Call_vp8_order ==
    /\ vp8.st = "idle"
    /\ \E t \in EVP_TYPES :
         \E o \in vp8_order(ml_dsa_get_codec(t).p8fmt, formats) :
            vp8' = [st |-> "done", ret |-> o.ret, err |-> o.err]
    /\ UNCHANGED <<formats, key, outformats, enc, p8, informats, dec, spki, pubdec>>

NextOrder == Call_vp8_order

SpecOrder == InitOrder /\ [][NextOrder]_vars

(***************************************************************************)
(* State machine of the private key codec: a key is encoded, the payload   *)
(* is wrapped in a PKCS#8 info (possibly damaged on the way) and decoded.  *)
(***************************************************************************)
\* Length of the longest crafted payload.
MaxCraft == 5

EncFailures == {"none", "vp8", "buf"}

\* What surrounds a decode call: the variant the decoder is tried for, the
\* parameter type of the algorithm identifier and the allocation that fails.
DecEnv(t, ptype, fail) == [evp_type |-> t, ptype |-> ptype, fail |-> fail]
BaseEnv(k) == DecEnv(k.evp_type, "V_ASN1_UNDEF", "none")
DecEnvs(k) ==
    { DecEnv(t, "V_ASN1_UNDEF", "none") : t \in EVP_TYPES }
    \cup { DecEnv(k.evp_type, "V_ASN1_NULL", "none") }
    \cup { DecEnv(k.evp_type, "V_ASN1_UNDEF", fail) : fail \in {"vp8", "key"} }

InitPrv ==
    /\ formats = NULL
    /\ vp8 = Idle
    /\ key \in Keys
    /\ outformats = NULL
    /\ enc = Idle
    /\ p8 = Idle
    /\ informats = NULL
    /\ dec = Idle
    /\ spki = Idle
    /\ pubdec = Idle

\* A call of ossl_ml_dsa_i2d_prvkey on the key.
Call_i2d_prvkey ==
    /\ enc.st = "idle" /\ p8.st = "idle"
    /\ \E f \in FormatLists, w \in BOOLEAN, fail \in EncFailures :
         /\ outformats' = f
         /\ \E r \in ossl_ml_dsa_i2d_prvkey(key, f, w, fail) :
               enc' = [call |-> [want_out |-> w, fail |-> fail]] @@ r
    /\ UNCHANGED <<formats, vp8, key, p8, informats, dec, spki, pubdec>>

\* The caller, which owns the payload returned, wraps it in a PKCS#8 info
\* for the key's algorithm.
Wrap ==
    /\ enc.st = "done" /\ enc.out # NULL /\ p8.st = "idle"
    /\ p8' = [st |-> "p8", nid |-> key.evp_type, buf |-> enc.out,
              how |-> "encoded", fmt |-> enc.fmt, arg |-> 0]
    /\ enc' = Idle
    /\ outformats' = NULL
    /\ UNCHANGED <<formats, vp8, key, informats, dec, spki, pubdec>>

\* A call of ossl_ml_dsa_d2i_PKCS8 on the PKCS#8 info, in one of envs.
Call_d2i_PKCS8(envs) ==
    /\ p8.st = "p8" /\ dec.st = "idle"
    /\ \E f \in FormatLists, e \in envs :
         /\ informats' = f
         /\ \E r \in ossl_ml_dsa_d2i_PKCS8(p8.nid, e.ptype, p8.buf, e.evp_type, f, e.fail) :
               dec' = [call |-> e] @@ r
    /\ UNCHANGED <<formats, vp8, key, outformats, enc, p8, spki, pubdec>>

Decode == Call_d2i_PKCS8(DecEnvs(key))

NextPrv == Call_i2d_prvkey \/ Wrap \/ Decode

SpecPrv == InitPrv /\ [][NextPrv]_vars

(***************************************************************************)
(* The same with payloads damaged or made up before they are decoded.      *)
(***************************************************************************)
\* The byte with bit j (0 the lowest) inverted.
FlipBit(byte, j) ==
    IF (byte \div (2 ^ j)) % 2 = 1 THEN byte - 2 ^ j ELSE byte + 2 ^ j

\* Bit b of a payload that starts with a tag and length, counted from the top
\* bit of its first byte, inverted.
Flip ==
    /\ p8.st = "p8" /\ p8.how = "encoded" /\ dec.st = "idle"
    /\ ml_dsa_get_codec(p8.nid).p8fmt[p8.fmt].p8_shift < 4
    /\ \E b \in 0..31 :
         p8' = [p8 EXCEPT !.buf[(b \div 8) + 1] = FlipBit(@, 7 - (b % 8)),
                          !.how = "flip", !.arg = b]
    /\ UNCHANGED <<formats, vp8, key, outformats, enc, informats, dec, spki, pubdec>>

\* The positions of the tags and lengths inside a payload written as entry f:
\* the two bytes before the seed and the four before the private key, where
\* they are not part of the top-level magic.
InnerHeader(f) ==
    (IF f.seed_length > 0 /\ f.seed_offset = (4 - f.p8_shift) + 2
     THEN {f.seed_offset - 1, f.seed_offset} ELSE {})
    \cup (IF f.priv_length > 0 /\ f.priv_offset >= 8
          THEN (f.priv_offset - 3)..f.priv_offset ELSE {})

\* One bit of a tag or length inside the payload inverted.
FlipInner ==
    /\ p8.st = "p8" /\ p8.how = "encoded" /\ dec.st = "idle"
    /\ \E i \in InnerHeader(ml_dsa_get_codec(p8.nid).p8fmt[p8.fmt]), j \in {0, 7} :
         p8' = [p8 EXCEPT !.buf[i] = FlipBit(@, j), !.how = "inner", !.arg = i]
    /\ UNCHANGED <<formats, vp8, key, outformats, enc, informats, dec, spki, pubdec>>

\* The last byte of the payload lost.
Truncate ==
    /\ p8.st = "p8" /\ p8.how = "encoded" /\ dec.st = "idle"
    /\ p8' = [p8 EXCEPT !.buf = SubSeq(@, 1, Len(@) - 1), !.how = "short"]
    /\ UNCHANGED <<formats, vp8, key, outformats, enc, informats, dec, spki, pubdec>>

\* One byte too many after the payload.
Extend ==
    /\ p8.st = "p8" /\ p8.how = "encoded" /\ dec.st = "idle"
    /\ p8' = [p8 EXCEPT !.buf = Append(@, 0), !.how = "long"]
    /\ UNCHANGED <<formats, vp8, key, outformats, enc, informats, dec, spki, pubdec>>

\* A made-up payload of n bytes for the key's algorithm.
Craft ==
    /\ p8.st = "idle" /\ enc.st = "idle"
    /\ \E n \in 0..MaxCraft :
         p8' = [st |-> "p8", nid |-> key.evp_type, buf |-> [i \in 1..n |-> (37 * i) % 256],
                how |-> "crafted", fmt |-> 0, arg |-> n]
    /\ UNCHANGED <<formats, vp8, key, outformats, enc, informats, dec, spki, pubdec>>

NextTamper ==
    Call_i2d_prvkey \/ Wrap \/ Flip \/ FlipInner \/ Truncate \/ Extend \/ Craft \/ Decode

SpecTamper == InitPrv /\ [][NextTamper]_vars

(***************************************************************************)
(* State machine of the public key codecs: the key's public bytes are      *)
(* encoded, and handed to the decoder as they are or behind the prefix of  *)
(* one of the variants.                                                    *)
(***************************************************************************)
InitPub ==
    /\ formats = NULL
    /\ vp8 = Idle
    /\ key \in Keys
    /\ outformats = NULL
    /\ enc = Idle
    /\ p8 = Idle
    /\ informats = NULL
    /\ dec = Idle
    /\ spki = Idle
    /\ pubdec = Idle

\* A call of ossl_ml_dsa_i2d_pubkey on the key.
Call_i2d_pubkey ==
    /\ spki.st = "idle"
    /\ \E w \in BOOLEAN, fail \in {"none", "dup"} :
         spki' = [call |-> [want_out |-> w, fail |-> fail]]
                    @@ ossl_ml_dsa_i2d_pubkey(key, w, fail)
    /\ UNCHANGED <<formats, vp8, key, outformats, enc, p8, informats, dec, pubdec>>

\* The inputs made of an encoder output: itself, and itself after the SPKI
\* prefix of each variant.
PubInputs(out) ==
    { [how |-> "raw", prefix |-> "none", pk |-> out] }
    \cup { [how |-> "wrapped", prefix |-> t, pk |-> ml_dsa_get_codec(t).spkifmt \o out] :
             t \in EVP_TYPES }

\* A call of ossl_ml_dsa_d2i_PUBKEY on one of these inputs.
Call_d2i_PUBKEY ==
    /\ spki.st = "done" /\ spki.out # NULL /\ pubdec.st = "idle"
    /\ \E in \in PubInputs(spki.out), t \in EVP_TYPES, fail \in {"none", "key", "decode"} :
         pubdec' = [st |-> "done",
                    call |-> [how |-> in.how, prefix |-> in.prefix,
                              evp_type |-> t, fail |-> fail]]
                      @@ ossl_ml_dsa_d2i_PUBKEY(in.pk, t, fail)
    /\ UNCHANGED <<formats, vp8, key, outformats, enc, p8, informats, dec, spki>>

NextPub == Call_i2d_pubkey \/ Call_d2i_PUBKEY

SpecPub == InitPub /\ [][NextPub]_vars

(***************************************************************************)
(* Properties of the preference list (checked under SpecOrder).            *)
(***************************************************************************)
\* The tokens of a configuration string, in order.
RECURSIVE TokensFrom(_, _)
TokensFrom(s, at) ==
    LET start == at + strspn(s, at)
    IN IF start > Len(s) THEN <<>>
       ELSE LET n == strcspn(s, start)
            IN <<SubSeq(s, start, start + n - 1)>> \o TokensFrom(s, start + n)
Tokens(s) == TokensFrom(s, 1)

LowerStr(t) == [i \in 1..Len(t) |-> tolower(t[i])]

\* The table entry whose name is the token (case-insensitively), 0 if none.
NameIndex(t) ==
    LET hits == { i \in 1..NUM_PKCS8_FORMATS :
                    LowerStr(ml_dsa_44_p8fmt[i].p8_name) = LowerStr(t) }
    IN IF hits = {} THEN 0 ELSE CHOOSE i \in hits : TRUE

\* The entries named by the tokens, each once, in order of first naming.
RECURSIVE NamedFrom(_, _, _)
NamedFrom(toks, i, acc) ==
    IF i > Len(toks) THEN acc
    ELSE LET d == NameIndex(toks[i])
         IN NamedFrom(toks, i + 1,
                      IF d = 0 \/ (\E j \in 1..Len(acc) : acc[j] = d) THEN acc
                      ELSE Append(acc, d))
Named(s) == NamedFrom(Tokens(s), 1, <<>>)

Range(q) == { q[i] : i \in 1..Len(q) }

\* C4 (as claimed): for a present configuration with at least one token
\* naming a format, vp8_order returns exactly the named descriptors, each
\* once, in order of the first token naming them, terminated right after the
\* last; descriptors not named are absent.
C4_NamedInOrder ==
    (vp8.st = "done" /\ formats # NULL /\ Named(formats[1]) # <<>>)
        => /\ vp8.ret # NULL
           /\ SlotList(vp8.ret) = Named(formats[1])

\* C5 (as claimed): a token enables a descriptor only when it is that
\* descriptor's name (case-insensitively); other tokens and repeats enable
\* nothing; a configuration with no format name among its tokens fails with
\* the no-format error and returns no list.
C5_OnlyNamesEnable ==
    (vp8.st = "done" /\ formats # NULL)
        => /\ vp8.ret # NULL => Range(SlotList(vp8.ret)) = Range(Named(formats[1]))
           /\ Named(formats[1]) = <<>>
                => (vp8.ret = NULL /\ vp8.err = "PROV_R_ML_DSA_NO_FORMAT")

CompiledOrder ==
    <<n_seed_priv, n_priv_only, n_oqskeypair, n_seed_only, n_bare_priv, n_bare_seed>>

ListNames(ret) ==
    [i \in 1..Len(SlotList(ret)) |-> ml_dsa_44_p8fmt[SlotList(ret)[i]].p8_name]

\* C6 (as claimed): a configuration naming no formats at all, absent or
\* present but empty or separators only, yields all six descriptors in
\* compiled table order.
C6_EmptyIsDefault ==
    (vp8.st = "done" /\ (formats = NULL \/ Tokens(formats[1]) = <<>>))
        => (vp8.ret # NULL /\ ListNames(vp8.ret) = CompiledOrder)

\* C6 (amended): an absent configuration yields all six descriptors in
\* compiled table order and raises nothing; a present configuration that is
\* empty or holds only separators fails with the no-format error and
\* returns no list.
C6_AbsentIsDefault ==
    vp8.st = "done"
        => /\ formats = NULL
                => (vp8.ret # NULL /\ vp8.err = NOERR
                    /\ ListNames(vp8.ret) = CompiledOrder)
           /\ (formats # NULL /\ Tokens(formats[1]) = <<>>)
                => (vp8.ret = NULL /\ vp8.err = "PROV_R_ML_DSA_NO_FORMAT")

C6_Witness ==
    vp8.st = "done" /\ formats = NULL /\ vp8.ret # NULL /\ Len(SlotList(vp8.ret)) = 6

(***************************************************************************)
(* Properties of the private key codec (checked under SpecPrv).            *)
(***************************************************************************)
\* The table entry of a variant.
Fmt(t, i) == ml_dsa_get_codec(t).p8fmt[i]

\* The lists vp8_order can return for a configuration (none when it fails).
Lists(t, fmts) ==
    { o.list[1] : o \in { x \in vp8_walks(t, fmts) : x.list # NULL } }

\* The table entries a configuration enables.
Enabled(t, fmts) == UNION { Range(L) : L \in Lists(t, fmts) }

\* An encoder output decoded for the key's variant, undamaged, with the
\* format it was written in enabled, nothing else going wrong.
RoundTrip ==
    /\ dec.st = "done" /\ p8.how = "encoded"
    /\ dec.call = BaseEnv(key)
    /\ p8.fmt \in Enabled(key.evp_type, informats)

WrittenAs == Fmt(key.evp_type, p8.fmt).p8_name

\* C1 (as claimed): a key with seed S and private bytes P, encoded as
\* seed-priv, seed-only or bare-seed and decoded with that format enabled,
\* yields key material with seed S and private bytes P.
C1_SeedAndPrivRecovered ==
    (RoundTrip /\ WrittenAs \in {n_seed_priv, n_seed_only, n_bare_seed})
        => /\ dec.ret # NULL
           /\ dec.ret[1].seed = ossl_ml_dsa_key_get_seed(key)
           /\ dec.ret[1].priv = ossl_ml_dsa_key_get_priv(key)

\* C1 (amended): the decoded seed is S for all three formats; the decoded
\* private bytes are P for seed-priv and absent for seed-only and bare-seed,
\* which carry the seed alone.
C1_SeedRecovered ==
    (RoundTrip /\ WrittenAs \in {n_seed_priv, n_seed_only, n_bare_seed})
        => /\ dec.ret # NULL
           /\ dec.ret[1].seed = ossl_ml_dsa_key_get_seed(key)
           /\ WrittenAs = n_seed_priv
                => dec.ret[1].priv = ossl_ml_dsa_key_get_priv(key)
           /\ WrittenAs \in {n_seed_only, n_bare_seed} => dec.ret[1].priv = NULL

C1_Witness ==
    /\ RoundTrip /\ WrittenAs = n_seed_only /\ key.evp_type = "ML-DSA-65"
    /\ dec.ret # NULL /\ dec.ret[1].seed = SeedBytes(key.seed)

\* C2: a key with private bytes P, with or without a seed, encoded as
\* priv-only or oqskeypair and decoded, yields key material with private
\* bytes P and no seed.
C2_PrivRecoveredNoSeed ==
    (RoundTrip /\ WrittenAs \in {n_priv_only, n_oqskeypair})
        => /\ dec.ret # NULL
           /\ dec.ret[1].priv = ossl_ml_dsa_key_get_priv(key)
           /\ dec.ret[1].seed = NULL

C2_Witness ==
    /\ RoundTrip /\ WrittenAs = n_oqskeypair /\ key.seed # 0
    /\ dec.ret # NULL /\ dec.ret[1].priv = PrivBytes(key.evp_type, key.priv)

\* An encode call on a key with private bytes in which no allocation failed.
Encoded == enc.st = "done" /\ key.priv # 0 /\ enc.call.fail = "none"

\* The positions of a list whose entry is applicable to the key: one that
\* declares a seed field is not when the key has no seed.
Applicable(L) ==
    { j \in 1..Len(L) : key.seed # 0 \/ Fmt(key.evp_type, L[j]).seed_length = 0 }

C10_NoInternalFault ==
    (Encoded /\ enc.fmt # 0 /\ enc.call.want_out) =>
        LET f == Fmt(key.evp_type, enc.fmt)
        IN /\ f.p8_shift \in {0, 2, 4}
           /\ enc.err # "ERR_R_INTERNAL_ERROR"
           /\ enc.ret = f.p8_bytes
           /\ enc.out # NULL /\ Len(enc.out) = f.p8_bytes
           /\ f.seed_length # 0
                => SubSeq(enc.out, f.seed_offset + 1, f.seed_offset + f.seed_length)
                     = ossl_ml_dsa_key_get_seed(key)
           /\ f.priv_length # 0
                => SubSeq(enc.out, f.priv_offset + 1, f.priv_offset + f.priv_length)
                     = ossl_ml_dsa_key_get_priv(key)
           /\ f.pub_length # 0
                => /\ SubSeq(enc.out, f.pub_offset + 1, f.pub_offset + f.pub_length)
                        = ossl_ml_dsa_key_get_pub(key)
                   /\ f.pub_offset + f.pub_length = f.p8_bytes

C10_Witness ==
    /\ Encoded /\ enc.call.want_out /\ key.evp_type = "ML-DSA-87"
    /\ enc.fmt = 3 /\ enc.ret = 7492 /\ enc.out # NULL

(***************************************************************************)
(* Properties of the decoder on damaged payloads (checked under            *)
(* SpecTamper).                                                            *)
(***************************************************************************)
\* The payload has the total length of the entry and starts with the bytes
\* of its top-level tag and length.
Matches(f, buf) ==
    /\ Len(buf) = f.p8_bytes
    /\ SubSeq(buf, 1, 4 - f.p8_shift) = SubSeq(U32(f.p8_magic), f.p8_shift + 1, 4)

\* A decode call for the payload's algorithm, no parameters, the format list
\* resolved, in which no enabled entry matches the payload.
NoCandidate ==
    /\ dec.st = "done"
    /\ dec.call = BaseEnv(key)
    /\ Lists(key.evp_type, informats) # {}
    /\ ~ \E i \in Enabled(key.evp_type, informats) : Matches(Fmt(key.evp_type, i), p8.buf)

\* C8 (as claimed): every such payload, of any length, makes decode return
\* no key with the no-format error raised.
C8_NoFormatRaised ==
    NoCandidate => (dec.ret = NULL /\ dec.err = "PROV_R_ML_DSA_NO_FORMAT")

\* C8 (amended): every such payload makes decode return no key; the
\* no-format error is raised when the payload has at least 4 bytes, and no
\* error is raised when it is shorter.
C8_NoFormatRaisedFrom4 ==
    NoCandidate =>
        /\ dec.ret = NULL
        /\ Len(p8.buf) >= 4 => dec.err = "PROV_R_ML_DSA_NO_FORMAT"
        /\ Len(p8.buf) < 4 => dec.err = NOERR

C8_Witness ==
    /\ NoCandidate /\ p8.how = "short" /\ informats = NULL
    /\ dec.err = "PROV_R_ML_DSA_NO_FORMAT"

\* C9: decode returns no key (a) for a payload whose length is not the total
\* length of an enabled format of the variant decoded for, one byte less or
\* more than a valid length included, and (b) for a valid payload of a
\* format with p8_shift < 4 with one bit of its leading 4 - p8_shift bytes
\* inverted, under every input formats configuration.
C9_RejectsDamaged ==
    dec.st = "done" =>
        /\ Len(p8.buf) \notin { Fmt(dec.call.evp_type, i).p8_bytes :
                                   i \in Enabled(dec.call.evp_type, informats) }
             => dec.ret = NULL
        /\ p8.how \in {"short", "long"} => dec.ret = NULL
        /\ (p8.how = "flip" /\ p8.arg < 8 * (4 - Fmt(p8.nid, p8.fmt).p8_shift))
             => dec.ret = NULL

C9_Witness ==
    /\ dec.st = "done" /\ p8.how = "flip" /\ p8.arg = 15
    /\ Fmt(p8.nid, p8.fmt).p8_name = n_seed_only
    /\ informats = NULL /\ dec.ret = NULL

(***************************************************************************)
(* Resources of a call (checked under SpecTamper).                         *)
(***************************************************************************)
\* The lengths a full encode of the key returns for the configuration of
\* the call made, its buffer allocation succeeding.
FullEncodeLengths ==
    { r.ret : r \in ossl_ml_dsa_i2d_prvkey(key, outformats, TRUE,
                        IF enc.call.fail = "buf" THEN "none" ELSE enc.call.fail) }

\* C11: on every exit of private key decode and encode the format list of
\* the call has been freed exactly once if it was allocated, also when
\* vp8_order itself fails; the output buffer of encode is freed on every
\* failing exit after its allocation, reaches the caller only with a
\* non-zero return value, and is neither allocated nor written when only the
\* length is asked for, the length returned then being the one a full
\* encode of the same key and configuration returns.
C11_ReleasedOnEveryExit ==
    /\ dec.st = "done"
          => (dec.vp8_allocs \in {0, 1} /\ dec.vp8_frees = dec.vp8_allocs)
    /\ enc.st = "done"
          => /\ enc.vp8_allocs \in {0, 1} /\ enc.vp8_frees = enc.vp8_allocs
             /\ enc.buf_allocs \in {0, 1}
             /\ enc.ret = 0 => (enc.out = NULL /\ enc.buf_frees = enc.buf_allocs)
             /\ enc.out # NULL
                  => (enc.ret # 0 /\ enc.buf_allocs = 1 /\ enc.buf_frees = 0)
             /\ (enc.ret # 0 /\ enc.call.want_out) => enc.out # NULL
             /\ ~enc.call.want_out
                  => /\ enc.buf_allocs = 0 /\ enc.buf_frees = 0 /\ enc.out = NULL
                     /\ FullEncodeLengths = {enc.ret}

C11_Witness ==
    /\ dec.st = "done" /\ p8.how = "inner" /\ dec.call = BaseEnv(key)
    /\ dec.fmt = 1 /\ dec.ret = NULL /\ dec.err = NOERR
    /\ dec.vp8_allocs = 1 /\ dec.vp8_frees = 1

\* For each variant and input configuration, the other configurations that
\* enable the same entries; those of the decode call made.
SameEnabledAs ==
    [t \in EVP_TYPES |->
        [f \in FormatLists |->
            { g \in FormatLists \ {f} : Enabled(t, g) = Enabled(t, f) }]]

SameEnabled == SameEnabledAs[dec.call.evp_type][informats]

\* What the decode call made would have returned with input formats f.
Redecoded(f) ==
    ossl_ml_dsa_d2i_PKCS8(p8.nid, dec.call.ptype, p8.buf, dec.call.evp_type, f,
                          dec.call.fail)

\* Within one variant no two entries have the same total length.
DistinctLengths ==
    \A t \in EVP_TYPES : \A i, j \in 1..NUM_PKCS8_FORMATS :
        Fmt(t, i).p8_bytes = Fmt(t, j).p8_bytes => i = j

\* C12: the outcome of private key decode depends on the set of enabled
\* input formats only, not on their order: for every variant, payload and
\* pair of configurations enabling the same entries, decode accepts the same
\* entry (or none) and yields the same seed and private bytes; within one
\* variant no two entries have the same total length.
C12_OrderIndependent ==
    /\ dec.st = "done"
          => \A f \in SameEnabled : \A r \in Redecoded(f) :
                r.fmt = dec.fmt /\ r.ret = dec.ret
    /\ DistinctLengths

C12_Witness ==
    /\ dec.st = "done" /\ dec.call = BaseEnv(key) /\ p8.how = "encoded"
    /\ informats = NULL /\ dec.fmt = 4 /\ dec.ret # NULL
    /\ \E f \in SameEnabled :
          Lists(key.evp_type, f) # Lists(key.evp_type, informats)

(***************************************************************************)
(* Properties of the public key codecs (checked under SpecPub).            *)
(***************************************************************************)
\* C3 (as claimed): public key encode of a key with public bytes returns the
\* 22-byte prefix of the variant followed by the public bytes, with length
\* 22 + pk_len; without public bytes it fails with the not-a-public-key
\* error and returns no buffer.
C3_PrefixedOutput ==
    (spki.st = "done" /\ spki.call.fail = "none") =>
        IF key.pub # 0
        THEN /\ spki.ret = ML_DSA_SPKI_OVERHEAD + ml_dsa_params[key.evp_type].pk_len
             /\ spki.call.want_out
                  => spki.out = ml_dsa_get_codec(key.evp_type).spkifmt
                                   \o ossl_ml_dsa_key_get_pub(key)
        ELSE spki.ret = 0 /\ spki.out = NULL /\ spki.err = "PROV_R_NOT_A_PUBLIC_KEY"

\* C3 (amended): public key encode of a key with public bytes returns a copy
\* of the raw public bytes alone, with length pk_len; public key decode
\* rejects that output as it is and accepts it behind the variant's 22-byte
\* prefix; without public bytes encode fails with the not-a-public-key
\* error and returns no buffer.
C3_RawOutput ==
    /\ (spki.st = "done" /\ spki.call.fail = "none") =>
          IF key.pub # 0
          THEN /\ spki.ret = ml_dsa_params[key.evp_type].pk_len
               /\ spki.call.want_out => spki.out = ossl_ml_dsa_key_get_pub(key)
               /\ ~spki.call.want_out => spki.out = NULL
          ELSE spki.ret = 0 /\ spki.out = NULL /\ spki.err = "PROV_R_NOT_A_PUBLIC_KEY"
    /\ (pubdec.st = "done" /\ pubdec.call.how = "raw") => pubdec.ret = NULL
    /\ (pubdec.st = "done" /\ pubdec.call.how = "wrapped" /\ pubdec.call.fail = "none"
           /\ pubdec.call.prefix = key.evp_type /\ pubdec.call.evp_type = key.evp_type)
          => (pubdec.ret # NULL /\ pubdec.ret[1].pub = ossl_ml_dsa_key_get_pub(key))

C3_Witness ==
    /\ spki.st = "done" /\ key.pub # 0 /\ spki.call.want_out
    /\ spki.ret = 1312 /\ Len(spki.out) = 1312
    /\ pubdec.st = "done" /\ pubdec.call.how = "raw" /\ pubdec.ret = NULL

====
